---- MODULE Spec2Model ----
(***************************************************************************)
(* Remote-data access layer of the pokemon-tracker repository:             *)
(*   - fetchFromApi, the transport with its retry policy                   *)
(*   - useSets / useCards, the hooks that build the request parameters and *)
(*     apply the completions of their requests to React state.             *)
(*   - App, its CardDetail dialog and CollectionView, the components that  *)
(*     use them.                                                           *)
(* The repository holds two variants of the hook file:                     *)
(*   "retry" : src/unnamed/part_002 (retry policy, falsy-parameter guard,  *)
(*             quoted search terms)                                        *)
(*   "plain" : src/src/lib/api.ts   (no retry, no guard, no quoting)       *)
(* A JavaScript string is a sequence of one-character strings.             *)
(***************************************************************************)
EXTENDS Integers, Sequences, FiniteSets, TLC

VARIABLES
    variant,      \* which of the two hook files is loaded
    \* ---- one fetchFromApi call (SpecFetch)
    pc,           \* "fetch": HTTP request outstanding, "delay": in delay(ms),
                  \* "returned" / "thrown": the promise has settled
    retryCount,   \* the retryCount argument of the current invocation
    requests,     \* number of fetch() calls made so far
    sleeps,       \* the delay(ms) arguments, as timer durations, in order
    responses,    \* what each fetch() call answered, in order
    outcome,      \* the value the promise settled with (NoValue before)
    \* ---- request building by one run of a hook's effect (SpecQuery)
    qhook,        \* "useSets" or "useCards"
    qsetId, qpage, qpageSize, qfilters,     \* the hook's arguments
    qparams,      \* the params object handed to fetchFromApi
    qsent,        \* the entries appended to url.searchParams
    qdone,        \* "init", "sent" (a request was built), "cleared" (none)
    \* ---- one mounted hook and its requests (SpecHooks)
    hook,         \* "useSets", "useCards" or "useCard"
    mounted,      \* the first effect has run
    hinput,       \* the arguments of the latest render
    hdata, htotal, hloading, herror,   \* the hook's React state
    issued,       \* the input of each fetchFromApi call made, in order
    calls,        \* calls[i]: retry counter and position of call i: "fetch",
                  \* "delay", or settled: "returned", "thrown"
    hsent,        \* hsent[i]: endpoint and query string of call i
    \* ---- App with its CardDetail dialog (SpecApp)
    view,         \* "sets", "cards" or "collection"
    selectedSet,  \* the set chosen in SetGrid, or Null
    selectedCard, \* the card chosen in CardGrid, or Null
    showCardDetail,
    quantity, condition, purchasePrice, notes,   \* the state of CardDetail
    collection,   \* the stored collection: card id -> entry
    edited,       \* a form field was changed since the last card selection
    lastEvent,    \* the handler of App that last set the view
    \* ---- one render of CollectionView after another (SpecCollectionView)
    collectionCards,   \* the cards of the collection, in the store's order
    sortBy,            \* "name", "price-high" or "price-low"
    selectedRarity,    \* the rarity filter, or Null
    sortedCards        \* what the latest render computed, or the error it threw

fetchVars == <<pc, retryCount, requests, sleeps, responses, outcome>>
queryVars == <<qhook, qsetId, qpage, qpageSize, qfilters, qparams, qsent, qdone>>
hookVars == <<hook, mounted, hinput, hdata, htotal, hloading, herror, issued,
              calls, hsent>>
appVars == <<view, selectedSet, selectedCard, showCardDetail, quantity, condition,
             purchasePrice, notes, collection, edited, lastEvent>>
cvVars == <<collectionCards, sortBy, selectedRarity, sortedCards>>
uiVars == <<appVars, cvVars>>
vars == <<variant, fetchVars, queryVars, hookVars, uiVars>>

Variants == {"retry", "plain"}

(***************************************************************************)
(* Program constants                                                       *)
(***************************************************************************)
MAX_RETRIES == 3
INITIAL_RETRY_DELAY == 1000

(***************************************************************************)
(* JavaScript helpers                                                      *)
(***************************************************************************)
Null == <<"<null>">>           \* the value null (no string is equal to it)

Digits == <<"0", "1", "2", "3", "4", "5", "6", "7", "8", "9">>
IsDigit(c) == \E i \in 1..10 : Digits[i] = c
DigitVal(c) == (CHOOSE i \in 1..10 : Digits[i] = c) - 1
IsWhite(c) == c \in {" ", "\t", "\n"}

RECURSIVE Pow2(_)
Pow2(n) == IF n = 0 THEN 1 ELSE 2 * Pow2(n - 1)

RECURSIVE SkipWhite(_)
SkipWhite(s) == IF s # <<>> /\ IsWhite(Head(s)) THEN SkipWhite(Tail(s)) ELSE s

RECURSIVE DigitRun(_, _, _)
\* the value of the longest digit prefix of s; seen = a digit was consumed
DigitRun(s, acc, seen) ==
    IF s # <<>> /\ IsDigit(Head(s))
    THEN DigitRun(Tail(s), acc * 10 + DigitVal(Head(s)), TRUE)
    ELSE [nan |-> ~seen, n |-> acc]

\* parseInt(string): leading white space, an optional sign, then decimal
\* digits up to the first other character; NaN when there is no digit.
parseInt(s) ==
    LET t == SkipWhite(s)
        neg == t # <<>> /\ Head(t) = "-"
        u == IF t # <<>> /\ Head(t) \in {"-", "+"} THEN Tail(t) ELSE t
        r == DigitRun(u, 0, FALSE)
    IN  [nan |-> r.nan, n |-> IF neg THEN 0 - r.n ELSE r.n]

\* number * 1000 with NaN propagating
Times1000(x) == [nan |-> x.nan, n |-> x.n * 1000]

\* delay(ms) = setTimeout(resolve, ms): the timer's duration; NaN and
\* negative durations are clamped to 0 by setTimeout.
delay(x) == IF x.nan \/ x.n < 0 THEN 0 ELSE x.n

Num(n) == [nan |-> FALSE, n |-> n]

RECURSIVE toString(_)
\* Number.prototype.toString of a non-negative integer
toString(n) ==
    IF n < 10 THEN <<Digits[n + 1]>>
    ELSE toString(n \div 10) \o <<Digits[(n % 10) + 1]>>

\* String.prototype.includes for a one-character needle
includes(str, c) == \E i \in 1..Len(str) : str[i] = c

\* truthiness of a string-or-null value
Truthy(v) == v # Null /\ v # <<>>

\* An object with string keys is the sequence of its [key, value] entries in
\* insertion order, which is the order of Object.entries for keys that are
\* not array indices.
HasKey(obj, k) == \E i \in 1..Len(obj) : obj[i][1] = k
\* obj[k] = v: an existing key keeps its position
SetKey(obj, k, v) ==
    IF HasKey(obj, k)
    THEN [i \in 1..Len(obj) |-> IF obj[i][1] = k THEN <<k, v>> ELSE obj[i]]
    ELSE Append(obj, <<k, v>>)
RECURSIVE Spread(_, _)
\* { ...obj, ...more }
Spread(obj, more) ==
    IF more = <<>> THEN obj
    ELSE Spread(SetKey(obj, more[1][1], more[1][2]), Tail(more))

RECURSIVE join(_, _)
\* Array.prototype.join
join(parts, sep) ==
    IF parts = <<>> THEN <<>>
    ELSE IF Len(parts) = 1 THEN parts[1]
    ELSE parts[1] \o sep \o join(Tail(parts), sep)

(***************************************************************************)
(* HTTP responses and errors                                               *)
(***************************************************************************)
NoHeader == Null               \* headers.get returns null: header absent
NoValue == [kind |-> "none", name |-> "", message |-> "", status |-> 0, payload |-> 0]

\* an Error object: its class, its message and, for the status message,
\* the status code interpolated into it
Err(name, message, status) ==
    [kind |-> "error", name |-> name, message |-> message, status |-> status,
     payload |-> 0]
\* the parsed JSON body of a success response; payload identifies the body
Body(payload) ==
    [kind |-> "json", name |-> "", message |-> "", status |-> 0, payload |-> payload]

FailedToFetch == Err("TypeError", "Failed to fetch", 0)
OtherTypeError == Err("TypeError", "NetworkError when attempting to fetch resource.", 0)
DecodeError == Err("SyntaxError", "Unexpected token", 0)

\* Retry-After header values a 429 may carry
RetryAfterHeaders ==
    { NoHeader, <<>>, <<"0">>, <<"2">>, <<"1", "0">>, <<" ", "3">>,
      <<"2", "x">>, <<"x">>, <<"-", "1">> }

ErrorStatuses == {400, 401, 404, 429, 500, 503}

\* what one fetch() call can answer
HttpResponses ==
    [type : {"http"}, status : {200}, retryAfter : {NoHeader},
     bodyOk : BOOLEAN, payload : {1}, error : {NoValue}]
    \cup [type : {"http"}, status : {429}, retryAfter : RetryAfterHeaders,
          bodyOk : {TRUE}, payload : {0}, error : {NoValue}]
    \cup [type : {"http"}, status : ErrorStatuses \ {429}, retryAfter : {NoHeader},
          bodyOk : {TRUE}, payload : {0}, error : {NoValue}]
\* fetch() itself rejecting: no HTTP response at all
Rejections ==
    [type : {"reject"}, status : {0}, retryAfter : {NoHeader},
     bodyOk : {TRUE}, payload : {0}, error : {FailedToFetch, OtherTypeError}]
Responses == HttpResponses \cup Rejections

\* a step of one invocation: retry after a delay, return a value, throw one
Retry(ms) == [act |-> "retry", ms |-> ms, value |-> NoValue]
Return(v) == [act |-> "return", ms |-> 0, value |-> v]
Throw(e) == [act |-> "throw", ms |-> 0, value |-> e]
Raise(e) == [act |-> "raise", ms |-> 0, value |-> e]   \* thrown inside try

(***************************************************************************)
(* fetchFromApi, retry variant (src/unnamed/part_002)                      *)
(***************************************************************************)
\* the default of 5 seconds written as 1
retryAfterOrDefault_one(h) == IF h = NoHeader \/ h = <<>> THEN <<"1">> ELSE h

\* response.headers.get('Retry-After') || '5'
retryAfterOrDefault(h) == IF h = NoHeader \/ h = <<>> THEN <<"5">> ELSE h

\* statusSwitch with the 429 budget test written <= instead of <
statusSwitch_retryLeq(rc, resp) ==
    CASE resp.status = 429 ->
            IF rc <= MAX_RETRIES
            THEN Retry(delay(Times1000(parseInt(retryAfterOrDefault(resp.retryAfter)))))
            ELSE Raise(Err("Error", "Rate limit exceeded. Please try again later.", 0))
      [] resp.status = 404 -> Raise(Err("Error", "Resource not found", 0))
      [] resp.status = 401 -> Raise(Err("Error", "Invalid API key", 0))
      [] OTHER -> Raise(Err("Error", "API request failed with status", resp.status))

\* statusSwitch with the 404 case falling into the 429 case
statusSwitch_404Retries(rc, resp) ==
    CASE resp.status \in {429, 404} ->
            IF rc < MAX_RETRIES
            THEN Retry(delay(Times1000(parseInt(retryAfterOrDefault(resp.retryAfter)))))
            ELSE Raise(Err("Error", "Rate limit exceeded. Please try again later.", 0))
      [] resp.status = 401 -> Raise(Err("Error", "Invalid API key", 0))
      [] OTHER -> Raise(Err("Error", "API request failed with status", resp.status))

\* statusSwitch retrying the server errors (5xx) like a 429
statusSwitch_5xxRetries(rc, resp) ==
    CASE resp.status = 429 \/ resp.status >= 500 ->
            IF rc < MAX_RETRIES
            THEN Retry(delay(Times1000(parseInt(retryAfterOrDefault(resp.retryAfter)))))
            ELSE Raise(Err("Error", "Rate limit exceeded. Please try again later.", 0))
      [] resp.status = 404 -> Raise(Err("Error", "Resource not found", 0))
      [] resp.status = 401 -> Raise(Err("Error", "Invalid API key", 0))
      [] OTHER -> Raise(Err("Error", "API request failed with status", resp.status))

\* the switch on response.status of a non-ok response
statusSwitch(rc, resp) ==
    CASE resp.status = 429 ->
            IF rc < MAX_RETRIES
            THEN Retry(delay(Times1000(parseInt(retryAfterOrDefault(resp.retryAfter)))))
            ELSE Raise(Err("Error", "Rate limit exceeded. Please try again later.", 0))
      [] resp.status = 404 -> Raise(Err("Error", "Resource not found", 0))
      [] resp.status = 401 -> Raise(Err("Error", "Invalid API key", 0))
      [] OTHER -> Raise(Err("Error", "API request failed with status", resp.status))

\* response.ok
ok(resp) == resp.status >= 200 /\ resp.status <= 299

\* the try block: await fetch, classify, parse
tryBlock(rc, resp) ==
    IF resp.type = "reject" THEN Raise(resp.error)
    ELSE IF ~ok(resp) THEN statusSwitch(rc, resp)
    ELSE IF resp.bodyOk THEN Return(Body(resp.payload))
    ELSE Raise(DecodeError)

\* catchBlock with a linear instead of a doubling backoff
catchBlock_linear(rc, error) ==
    IF error.name = "TypeError" /\ error.message = "Failed to fetch"
       /\ rc < MAX_RETRIES
    THEN Retry(delay(Num(INITIAL_RETRY_DELAY * (rc + 1))))
    ELSE Throw(error)

\* catchBlock with the budget test written <= instead of <
catchBlock_retryLeq(rc, error) ==
    IF error.name = "TypeError" /\ error.message = "Failed to fetch"
       /\ rc <= MAX_RETRIES
    THEN Retry(delay(Num(INITIAL_RETRY_DELAY * Pow2(rc))))
    ELSE Throw(error)

\* catchBlock retrying every error while budget remains
catchBlock_retryAll(rc, error) ==
    IF rc < MAX_RETRIES
    THEN Retry(delay(Num(INITIAL_RETRY_DELAY * Pow2(rc))))
    ELSE Throw(error)

\* catchBlock with the backoff counted from the network failures only of
\* the call: a failure that follows 429 retries starts again at 1000 ms
catchBlock_ownCounter(rc, error) ==
    IF error.name = "TypeError" /\ error.message = "Failed to fetch"
       /\ rc < MAX_RETRIES
    THEN Retry(delay(Num(INITIAL_RETRY_DELAY
                         * Pow2(Cardinality({k \in 1..Len(responses) :
                                   responses[k].type = "reject"})))))
    ELSE Throw(error)

\* the catch block
catchBlock(rc, error) ==
    IF error.name = "TypeError" /\ error.message = "Failed to fetch"
       /\ rc < MAX_RETRIES
    THEN Retry(delay(Num(INITIAL_RETRY_DELAY * Pow2(rc))))
    ELSE Throw(error)

\* one invocation fetchFromApi(endpoint, params, rc) whose fetch answered resp
fetchFromApi(rc, resp) ==
    LET t == tryBlock(rc, resp)
    IN  IF t.act = "raise" THEN catchBlock(rc, t.value) ELSE t

(***************************************************************************)
(* fetchFromApi, plain variant (src/src/lib/api.ts)                        *)
(***************************************************************************)
fetchFromApi_api(resp) ==
    IF resp.type = "reject" THEN Throw(resp.error)
    ELSE IF ~ok(resp)
         THEN Throw(Err("Error", "API request failed with status", resp.status))
    ELSE IF resp.bodyOk THEN Return(Body(resp.payload))
    ELSE Throw(DecodeError)

(***************************************************************************)
(* App (src/src/components/CollectionView.tsx 339-411) and the CardDetail  *)
(* dialog it renders (src/unnamed/part_000): state                         *)
(***************************************************************************)
\* the cards CardGrid can offer and the sets SetGrid can offer
C_xy1_1 == <<"x", "y", "1", "-", "1">>
C_xy1_2 == <<"x", "y", "1", "-", "2">>
AppCards == {C_xy1_1, C_xy1_2}
AppSets == {<<"b", "a", "s", "e", "1">>, <<"x", "y", "1">>}

\* getCollectionCard(id) of a card that is not in the collection
NoEntry == [owned |-> FALSE, quantity |-> 0, condition |-> "", purchasePrice |-> 0,
            notes |-> <<>>]
Entry(q, c, p, n) ==
    [owned |-> TRUE, quantity |-> q, condition |-> c, purchasePrice |-> p, notes |-> n]
\* entries the store can hold when the page is loaded
StoredEntries == {NoEntry, Entry(1, "Near Mint", 0, <<>>), Entry(2, "Mint", 5, <<"n">>)}

NoEvent == [name |-> "mount", set |-> Null, view |-> ""]

\* the state of App and CardDetail after the first render: CardDetail is
\* rendered with card = null, so collectionCard is null and every useState
\* takes its default
AppMounted ==
    /\ view = "sets" /\ selectedSet = Null
    /\ selectedCard = Null /\ showCardDetail = FALSE
    /\ quantity = 1 /\ condition = "Near Mint" /\ purchasePrice = 0 /\ notes = <<>>
    /\ edited = FALSE /\ lastEvent = NoEvent

\* what a render of CollectionView yields: the cards in display order, or
\* the error thrown while rendering
Rendered(cards) == [ok |-> TRUE, cards |-> cards, error |-> ""]
RenderThrew(error) == [ok |-> FALSE, cards |-> <<>>, error |-> error]

CvIdle ==
    /\ collectionCards = <<>> /\ sortBy = "name" /\ selectedRarity = Null
    /\ sortedCards = Rendered(<<>>)

UiIdle == AppMounted /\ collection = [c \in AppCards |-> NoEntry] /\ CvIdle

(***************************************************************************)
(* One fetchFromApi call                                                   *)
(***************************************************************************)
FetchInit ==
    /\ pc = "idle" /\ retryCount = 0 /\ requests = 0
    /\ sleeps = <<>> /\ responses = <<>> /\ outcome = NoValue

\* fetchFromApi(endpoint, params): retryCount defaults to 0, fetch is called
CallFetch ==
    /\ pc = "idle"
    /\ pc' = "fetch" /\ requests' = requests + 1
    /\ UNCHANGED <<uiVars, variant, retryCount, sleeps, responses, outcome, queryVars, hookVars>>

Settle(step) ==
    CASE step.act = "retry" ->
            /\ pc' = "delay" /\ sleeps' = Append(sleeps, step.ms)
            /\ outcome' = outcome
      [] step.act = "return" ->
            /\ pc' = "returned" /\ outcome' = step.value /\ sleeps' = sleeps
      [] OTHER ->
            /\ pc' = "thrown" /\ outcome' = step.value /\ sleeps' = sleeps

\* returnRetry as if written return await fetchFromApi(...): a rejection
\* of the retry issued inside the try block is caught by that invocation
returnRetry_awaited(rc, step) ==
    IF step.act = "throw" /\ responses[rc + 1].type = "http"
    THEN catchBlock(rc, step.value)
    ELSE step

\* return fetchFromApi(endpoint, params, retryCount + 1) in the invocation
\* with counter rc: its promise is resolved with the promise of the retry
\* and settles as that one does; no handler of this invocation runs
returnRetry(rc, step) == step

RECURSIVE unwind(_, _)
\* the settlement of the innermost invocation passes through the
\* invocations that returned it, from counter rc down to 0
unwind(rc, step) ==
    IF rc < 0 \/ step.act = "retry" THEN step
    ELSE unwind(rc - 1, returnRetry(rc, step))

\* the outstanding fetch() answers (retry variant)
Respond ==
    /\ variant = "retry" /\ pc = "fetch"
    /\ \E resp \in Responses :
          /\ responses' = Append(responses, resp)
          /\ Settle(unwind(retryCount - 1, fetchFromApi(retryCount, resp)))
    /\ UNCHANGED <<uiVars, variant, retryCount, requests, queryVars, hookVars>>

\* the outstanding fetch() answers (plain variant)
RespondPlain ==
    /\ variant = "plain" /\ pc = "fetch"
    /\ \E resp \in Responses :
          /\ responses' = Append(responses, resp)
          /\ Settle(fetchFromApi_api(resp))
    /\ UNCHANGED <<uiVars, variant, retryCount, requests, queryVars, hookVars>>

\* delay(ms) resolves: return fetchFromApi(endpoint, params, retryCount + 1)
DelayElapsed ==
    /\ pc = "delay"
    /\ pc' = "fetch" /\ retryCount' = retryCount + 1 /\ requests' = requests + 1
    /\ UNCHANGED <<uiVars, variant, sleeps, responses, outcome, queryVars, hookVars>>

QueryIdle ==
    /\ qhook = "useSets" /\ qsetId = Null /\ qpage = 1 /\ qpageSize = 1
    /\ qfilters = <<>> /\ qparams = <<>> /\ qsent = <<>> /\ qdone = "init"

\* useState initial values; useSets starts with loading = true
HookState(h) ==
    /\ hook = h /\ mounted = FALSE
    /\ hdata = 0 /\ htotal = 0 /\ hloading = (h = "useSets") /\ herror = NoValue
    /\ issued = <<>> /\ calls = <<>> /\ hsent = <<>>
HookIdle ==
    /\ HookState("useSets")
    /\ hinput = [setId |-> Null, cardId |-> Null, page |-> 1, pageSize |-> 20,
                 filters |-> <<>>]

InitFetch == variant \in Variants /\ FetchInit /\ QueryIdle /\ HookIdle /\ UiIdle
NextFetch == CallFetch \/ Respond \/ RespondPlain \/ DelayElapsed
SpecFetch == InitFetch /\ [][NextFetch]_vars

(***************************************************************************)
(* Building a request: the params of useSets and useCards, and the query   *)
(* string fetchFromApi appends to the URL                                  *)
(***************************************************************************)
S_page == <<"p", "a", "g", "e">>
S_pageSize == <<"p", "a", "g", "e", "S", "i", "z", "e">>
S_orderBy == <<"o", "r", "d", "e", "r", "B", "y">>
S_q == <<"q">>
S_releaseDate == <<"r", "e", "l", "e", "a", "s", "e", "D", "a", "t", "e">>
S_number == <<"n", "u", "m", "b", "e", "r">>
S_setId == <<"s", "e", "t", ".", "i", "d", ":">>
S_rarity == <<"r", "a", "r", "i", "t", "y">>
S_type == <<"t", "y", "p", "e">>
S_Fire == <<"F", "i", "r", "e">>
S_RareHolo == <<"R", "a", "r", "e", " ", "H", "o", "l", "o">>
S_base1 == <<"b", "a", "s", "e", "1">>
S_tabbed == <<"R", "\t", "H">>      \* a value with a tab and no space
Quote == <<"\"">>

\* useSetsParams with the filters spread first: { ...filters, page, ... }
useSetsParams_filtersFirst(page, pageSize, filters) ==
    Spread(filters, << <<S_page, toString(page)>>, <<S_pageSize, toString(pageSize)>>,
                       <<S_orderBy, S_releaseDate>> >>)

\* useSets: { page, pageSize, orderBy: 'releaseDate', ...filters }
useSetsParams(page, pageSize, filters) ==
    Spread(<< <<S_page, toString(page)>>, <<S_pageSize, toString(pageSize)>>,
              <<S_orderBy, S_releaseDate>> >>, filters)

\* the term pushed for one filter entry (retry variant)
filterTerm(key, value) ==
    LET filterValue == IF includes(value, " ") THEN Quote \o value \o Quote ELSE value
    IN  key \o <<":">> \o filterValue

RECURSIVE pushFilters(_, _)
\* Object.entries(filters).forEach: push a term for each truthy value
pushFilters(queryParts, entries) ==
    IF entries = <<>> THEN queryParts
    ELSE pushFilters(IF Truthy(entries[1][2])
                     THEN Append(queryParts, filterTerm(entries[1][1], entries[1][2]))
                     ELSE queryParts,
                     Tail(entries))

\* useCardsParams with the filters also spread into params, as useSets does
useCardsParams_spread(setId, page, pageSize, filters) ==
    LET queryParts == pushFilters(<<S_setId \o Quote \o setId \o Quote>>, filters)
    IN  Spread(<< <<S_page, toString(page)>>, <<S_pageSize, toString(pageSize)>>,
                  <<S_q, join(queryParts, <<" ">>)>>, <<S_orderBy, S_number>> >>,
               filters)

\* useCards (retry variant): queryParts joined into q
useCardsParams(setId, page, pageSize, filters) ==
    LET queryParts == pushFilters(<<S_setId \o Quote \o setId \o Quote>>, filters)
    IN  << <<S_page, toString(page)>>, <<S_pageSize, toString(pageSize)>>,
           <<S_q, join(queryParts, <<" ">>)>>, <<S_orderBy, S_number>> >>

RECURSIVE appendFilters(_, _)
\* Object.entries(filters).forEach: params.q += ` ${key}:${value}`
appendFilters(q, entries) ==
    IF entries = <<>> THEN q
    ELSE appendFilters(IF Truthy(entries[1][2])
                       THEN q \o <<" ">> \o entries[1][1] \o <<":">> \o entries[1][2]
                       ELSE q,
                       Tail(entries))

\* useCards (plain variant): q starts as `set.id:${setId}` and is appended to
useCardsParams_api(setId, page, pageSize, filters) ==
    << <<S_page, toString(page)>>, <<S_pageSize, toString(pageSize)>>,
       <<S_q, appendFilters(S_setId \o setId, filters)>>, <<S_orderBy, S_number>> >>

\* fetchFromApi (retry variant): append the entries whose value is truthy
searchParams(params) == SelectSeq(params, LAMBDA e : Truthy(e[2]))

\* fetchFromApi (plain variant): append every entry
searchParams_api(params) == params

\* the arguments a hook is rendered with
FilterKeys == {S_rarity, S_type, S_page, S_orderBy}
FilterValues == {<<>>, S_Fire, S_RareHolo, S_tabbed}
MaxFilters == 2
FilterMaps ==
    { f \in UNION { [1..n -> FilterKeys \X FilterValues] : n \in 0..MaxFilters } :
        \A i, j \in 1..Len(f) : i # j => f[i][1] # f[j][1] }
SetIds == {Null, <<>>, S_base1}
Pages == {1, 2, 10}
PageSizes == {20}

InitQuery ==
    /\ variant \in Variants /\ FetchInit
    /\ qhook \in {"useSets", "useCards"}
    /\ qsetId \in (IF qhook = "useCards" THEN SetIds ELSE {Null})
    /\ qpage \in Pages /\ qpageSize \in PageSizes /\ qfilters \in FilterMaps
    /\ qparams = <<>> /\ qsent = <<>> /\ qdone = "init"
    /\ HookIdle /\ UiIdle

\* the effect of useSets runs: fetchSets builds params and calls fetchFromApi
RunUseSets ==
    /\ qhook = "useSets" /\ qdone = "init"
    /\ LET params == useSetsParams(qpage, qpageSize, qfilters)
       IN  /\ qparams' = params
           /\ qsent' = IF variant = "retry" THEN searchParams(params)
                                            ELSE searchParams_api(params)
    /\ qdone' = "sent"
    /\ UNCHANGED <<uiVars, variant, fetchVars, hookVars, qhook, qsetId, qpage, qpageSize,
                   qfilters>>

\* the effect of useCards runs with a setId: fetchCards builds params
RunUseCards ==
    /\ qhook = "useCards" /\ qdone = "init" /\ Truthy(qsetId)
    /\ LET params == IF variant = "retry"
                     THEN useCardsParams(qsetId, qpage, qpageSize, qfilters)
                     ELSE useCardsParams_api(qsetId, qpage, qpageSize, qfilters)
       IN  /\ qparams' = params
           /\ qsent' = IF variant = "retry" THEN searchParams(params)
                                            ELSE searchParams_api(params)
    /\ qdone' = "sent"
    /\ UNCHANGED <<uiVars, variant, fetchVars, hookVars, qhook, qsetId, qpage, qpageSize,
                   qfilters>>

\* the effect of useCards runs without a setId: no request
RunUseCardsNoSet ==
    /\ qhook = "useCards" /\ qdone = "init" /\ ~Truthy(qsetId)
    /\ qdone' = "cleared"
    /\ UNCHANGED <<uiVars, variant, fetchVars, hookVars, qhook, qsetId, qpage, qpageSize,
                   qfilters, qparams, qsent>>

NextQuery == RunUseSets \/ RunUseCards \/ RunUseCardsNoSet
SpecQuery == InitQuery /\ [][NextQuery]_vars

(***************************************************************************)
(* A mounted hook: useSets or useCards.  hdata and htotal hold 0 for the   *)
(* empty list / zero and i for the data / totalCount of the body answered  *)
(* to call i.                                                              *)
(***************************************************************************)
MaxRequests == 2
S_sets == <<"s", "e", "t", "s">>
S_cards == <<"c", "a", "r", "d", "s">>
S_xy1 == <<"x", "y", "1">>
\* two filter objects with the same entries inserted in the two orders
HookFilters ==
    { << <<S_rarity, S_Fire>>, <<S_type, S_Fire>> >>,
      << <<S_type, S_Fire>>, <<S_rarity, S_Fire>> >> }
\* the arguments of a render: useSets(page, pageSize, filters),
\* useCards(setId, page, pageSize, filters), useCard(cardId)
HookInputs(h) ==
    [setId : IF h = "useCards" THEN {Null, S_base1} ELSE {Null},
     cardId : IF h = "useCard" THEN {Null, <<>>, S_xy1, S_base1} ELSE {Null},
     page : IF h = "useCards" THEN {1, 2} ELSE {1},
     pageSize : {20},
     filters : IF h = "useSets" THEN HookFilters ELSE {<<>>}]

\* Issues with the guard of useCards left out
Issues_noGuard(h, in) == h \in {"useSets", "useCards"} \/ Truthy(in.cardId)

\* a hook's effect issues a request unless it is useCards without a setId
\* or useCard without a cardId
Issues(h, in) ==
    \/ h = "useSets"
    \/ h = "useCards" /\ Truthy(in.setId)
    \/ h = "useCard" /\ Truthy(in.cardId)

RECURSIVE stringifyEntries(_)
stringifyEntries(obj) ==
    IF obj = <<>> THEN <<>>
    ELSE (IF Len(obj) > 1 THEN stringifyEntries(SubSeq(obj, 1, Len(obj) - 1)) \o <<",">>
          ELSE <<>>)
         \o Quote \o obj[Len(obj)][1] \o Quote \o <<":">>
         \o Quote \o obj[Len(obj)][2] \o Quote
\* JSON.stringify of an object of strings (none of which needs escaping)
JSONstringify(obj) == <<"{">> \o stringifyEntries(obj) \o <<"}">>

\* deps with page missing from the dependency list of useCards
deps_noPage(h, in) ==
    CASE h = "useSets" -> <<in.page, in.pageSize, JSONstringify(in.filters)>>
      [] h = "useCards" -> <<in.setId, in.pageSize, JSONstringify(in.filters)>>
      [] OTHER -> <<in.cardId>>

\* the dependency list of the hook's effect
deps(h, in) ==
    CASE h = "useSets" -> <<in.page, in.pageSize, JSONstringify(in.filters)>>
      [] h = "useCards" -> <<in.setId, in.page, in.pageSize, JSONstringify(in.filters)>>
      [] OTHER -> <<in.cardId>>

\* Request with useCard calling the list endpoint
Request_cardsList(h, in) ==
    LET params ==
          CASE h = "useSets" -> useSetsParams(in.page, in.pageSize, in.filters)
            [] h = "useCards" ->
                 IF variant = "retry"
                 THEN useCardsParams(in.setId, in.page, in.pageSize, in.filters)
                 ELSE useCardsParams_api(in.setId, in.page, in.pageSize, in.filters)
            [] OTHER -> << <<S_q, in.cardId>> >>
    IN  [endpoint |-> IF h = "useSets" THEN S_sets ELSE S_cards,
         query |-> IF variant = "retry" THEN searchParams(params)
                                         ELSE searchParams_api(params)]

\* the endpoint and the query string of the call the effect makes for in
Request(h, in) ==
    LET params ==
          CASE h = "useSets" -> useSetsParams(in.page, in.pageSize, in.filters)
            [] h = "useCards" ->
                 IF variant = "retry"
                 THEN useCardsParams(in.setId, in.page, in.pageSize, in.filters)
                 ELSE useCardsParams_api(in.setId, in.page, in.pageSize, in.filters)
            [] OTHER -> <<>>
    IN  [endpoint |-> CASE h = "useSets" -> S_sets
                        [] h = "useCards" -> S_cards
                        [] OTHER -> S_cards \o <<"/">> \o in.cardId,
         query |-> IF variant = "retry" THEN searchParams(params)
                                         ELSE searchParams_api(params)]

\* Effect clearing the data on entering Loading
Effect_clearsData(in) ==
    IF Issues(hook, in)
    THEN /\ hloading' = TRUE /\ herror' = NoValue
         /\ issued' = Append(issued, in)
         /\ calls' = Append(calls, [rc |-> 0, pc |-> "fetch"])
         /\ hsent' = Append(hsent, Request(hook, in))
         /\ hdata' = 0 /\ htotal' = 0
    ELSE /\ hdata' = 0
         /\ htotal' = IF hook = "useCards" THEN 0 ELSE htotal
         /\ UNCHANGED <<hloading, herror, issued, calls, hsent>>

\* the body of the effect for the input in
Effect(in) ==
    IF Issues(hook, in)
    THEN \* fetchSets() / fetchCards() / fetchCard() up to the await
         /\ hloading' = TRUE /\ herror' = NoValue
         /\ issued' = Append(issued, in)
         /\ calls' = Append(calls, [rc |-> 0, pc |-> "fetch"])
         /\ hsent' = Append(hsent, Request(hook, in))
         /\ UNCHANGED <<hdata, htotal>>
    ELSE \* if (!setId) { setCards([]); setTotalCards(0); return; }
         \* if (!cardId) { setCard(null); return; }
         /\ hdata' = 0
         /\ htotal' = IF hook = "useCards" THEN 0 ELSE htotal
         /\ UNCHANGED <<hloading, herror, issued, calls, hsent>>

\* first render: the effect runs
Mount ==
    /\ ~mounted /\ mounted' = TRUE
    /\ Effect(hinput)
    /\ UNCHANGED <<uiVars, variant, fetchVars, queryVars, hook, hinput>>

\* a render with arguments that differ by value: the effect runs again
ChangeInput ==
    /\ mounted
    /\ \E in \in HookInputs(hook) :
          /\ deps(hook, in) # deps(hook, hinput)
          /\ Issues(hook, in) => Len(issued) < MaxRequests
          /\ hinput' = in
          /\ Effect(in)
    /\ UNCHANGED <<uiVars, variant, fetchVars, queryVars, hook, mounted>>

\* a render whose dependency list equals the previous one (the same values,
\* a filters object with the same JSON text): the effect does not run
Rerender ==
    /\ mounted
    /\ \E in \in HookInputs(hook) :
          /\ deps(hook, in) = deps(hook, hinput)
          /\ hinput' = in
    /\ UNCHANGED <<uiVars, variant, fetchVars, queryVars, hook, mounted, hdata, htotal,
                   hloading, herror, issued, calls, hsent>>

\* what the fetch() of call i can answer
HookResponses(i) ==
    { r \in [type : {"http"}, status : {200, 404, 429},
             retryAfter : {NoHeader}, bodyOk : BOOLEAN, payload : {0, i},
             error : {NoValue}] :
        IF r.status = 200 THEN r.payload = i ELSE r.payload = 0 /\ r.bodyOk }
    \cup [type : {"reject"}, status : {0}, retryAfter : {NoHeader},
          bodyOk : {TRUE}, payload : {0}, error : {FailedToFetch}]

\* Complete with the catch block dropping the error
Complete_swallows(i, step) ==
    /\ IF step.act = "return"
       THEN /\ hdata' = step.value.payload
            /\ htotal' = IF hook = "useCard" THEN htotal ELSE step.value.payload
            /\ herror' = herror
       ELSE /\ herror' = NoValue
            /\ UNCHANGED <<hdata, htotal>>
    /\ hloading' = FALSE
    /\ calls' = [calls EXCEPT ![i].pc = IF step.act = "return" THEN "returned"
                                                              ELSE "thrown"]

\* Complete with the success path setting the data and not the total
Complete_dataOnly(i, step) ==
    /\ IF step.act = "return"
       THEN /\ hdata' = step.value.payload
            /\ UNCHANGED <<htotal, herror>>
       ELSE /\ herror' = step.value
            /\ UNCHANGED <<hdata, htotal>>
    /\ hloading' = FALSE
    /\ calls' = [calls EXCEPT ![i].pc = IF step.act = "return" THEN "returned"
                                                              ELSE "thrown"]

\* Complete with the catch block also emptying the data and the total
Complete_clearsOnError(i, step) ==
    /\ IF step.act = "return"
       THEN /\ hdata' = step.value.payload
            /\ htotal' = IF hook = "useCard" THEN htotal ELSE step.value.payload
            /\ herror' = herror
       ELSE /\ herror' = step.value
            /\ hdata' = 0 /\ htotal' = 0
    /\ hloading' = FALSE
    /\ calls' = [calls EXCEPT ![i].pc = IF step.act = "return" THEN "returned"
                                                              ELSE "thrown"]

\* the continuation of fetchSets / fetchCards / fetchCard after the await of
\* call i
Complete(i, step) ==
    /\ IF step.act = "return"
       THEN \* setSets(response.data); setTotalSets(response.totalCount)
            \* setCard(response.data)
            /\ hdata' = step.value.payload
            /\ htotal' = IF hook = "useCard" THEN htotal ELSE step.value.payload
            /\ herror' = herror
       ELSE \* catch: setError(error instanceof Error ? error : ...): every
            \* value fetchFromApi throws is an Error
            /\ herror' = step.value
            /\ UNCHANGED <<hdata, htotal>>
    /\ hloading' = FALSE       \* finally
    /\ calls' = [calls EXCEPT ![i].pc = IF step.act = "return" THEN "returned"
                                                              ELSE "thrown"]

\* HookRespond with a retried failure shown to the caller
HookRespond_retryShown ==
    /\ \E i \in 1..Len(calls) :
          /\ calls[i].pc = "fetch"
          /\ \E resp \in HookResponses(i) :
                LET step == IF variant = "retry"
                            THEN fetchFromApi(calls[i].rc, resp)
                            ELSE fetchFromApi_api(resp)
                IN  IF step.act = "retry"
                    THEN /\ calls' = [calls EXCEPT ![i].pc = "delay"]
                         /\ hloading' = FALSE
                         /\ UNCHANGED <<hdata, htotal, herror>>
                    ELSE Complete(i, step)
    /\ UNCHANGED <<uiVars, variant, fetchVars, queryVars, hook, mounted, hinput, issued,
                   hsent>>

\* the outstanding fetch() of call i answers
HookRespond ==
    /\ \E i \in 1..Len(calls) :
          /\ calls[i].pc = "fetch"
          /\ \E resp \in HookResponses(i) :
                LET step == IF variant = "retry"
                            THEN fetchFromApi(calls[i].rc, resp)
                            ELSE fetchFromApi_api(resp)
                IN  IF step.act = "retry"
                    THEN /\ calls' = [calls EXCEPT ![i].pc = "delay"]
                         /\ UNCHANGED <<hdata, htotal, hloading, herror>>
                    ELSE Complete(i, step)
    /\ UNCHANGED <<uiVars, variant, fetchVars, queryVars, hook, mounted, hinput, issued,
                   hsent>>

\* HookDelayElapsed with the retry passing retryCount on, not retryCount + 1
HookDelayElapsed_sameCounter ==
    /\ \E i \in 1..Len(calls) :
          /\ calls[i].pc = "delay"
          /\ calls' = [calls EXCEPT ![i].pc = "fetch"]
    /\ UNCHANGED <<uiVars, variant, fetchVars, queryVars, hook, mounted, hinput, hdata,
                   htotal, hloading, herror, issued, hsent>>

\* the delay of call i elapses: fetchFromApi(endpoint, params, retryCount + 1)
HookDelayElapsed ==
    /\ \E i \in 1..Len(calls) :
          /\ calls[i].pc = "delay"
          /\ calls' = [calls EXCEPT ![i].rc = @ + 1, ![i].pc = "fetch"]
    /\ UNCHANGED <<uiVars, variant, fetchVars, queryVars, hook, mounted, hinput, hdata,
                   htotal, hloading, herror, issued, hsent>>

InitHooks ==
    /\ variant \in Variants /\ FetchInit /\ QueryIdle /\ UiIdle
    /\ \E h \in {"useSets", "useCards", "useCard"} : HookState(h)
    /\ hinput \in HookInputs(hook)
NextHooks == Mount \/ ChangeInput \/ Rerender \/ HookRespond \/ HookDelayElapsed
SpecHooks == InitHooks /\ [][NextHooks]_vars

\* the first effect runs after the first render, every fetch() answers or
\* rejects, and every timer fires
SpecHooksLive ==
    /\ SpecHooks
    /\ WF_vars(Mount) /\ WF_vars(HookRespond) /\ WF_vars(HookDelayElapsed)

(***************************************************************************)
(* Properties of one fetchFromApi call                                     *)
(***************************************************************************)
Settled == pc \in {"returned", "thrown"}
Last(seq) == seq[Len(seq)]
Is429(resp) == resp.type = "http" /\ resp.status = 429
IsFailedToFetch(resp) == resp.type = "reject" /\ resp.error = FailedToFetch
IsGoodBody(resp) == resp.type = "http" /\ resp.status = 200 /\ resp.bodyOk
\* the first n answers were all 429s / all 'Failed to fetch' rejections
All429(n) == \A i \in 1..n : Is429(responses[i])
AllFailedToFetch(n) == \A i \in 1..n : IsFailedToFetch(responses[i])
RateLimited == Err("Error", "Rate limit exceeded. Please try again later.", 0)
IsPrefix(s, t) == Len(s) <= Len(t) /\ s = SubSeq(t, 1, Len(s))

\* C2: a call answered only by 429s makes exactly 4 requests (it is not
\* settled before the fourth answer, and settled by it with the rate-limit
\* error, never issuing a fifth); a parseable 200 after only 429s makes the
\* call return that body.
C2_RateLimitBudget ==
    variant = "retry" =>
      /\ All429(Len(responses)) =>
            /\ requests <= 4
            /\ (Len(responses) < 4 => ~Settled)
            /\ (Len(responses) = 4 =>
                    pc = "thrown" /\ outcome = RateLimited /\ requests = 4)
      /\ ( /\ responses # <<>>
           /\ All429(Len(responses) - 1)
           /\ IsGoodBody(Last(responses)) ) =>
            /\ pc = "returned" /\ outcome = Body(Last(responses).payload)
            /\ Len(responses) <= 4 /\ requests = Len(responses)

C2_Witness ==
    /\ variant = "retry" /\ Len(responses) = 4
    /\ All429(4) /\ pc = "thrown"

\* C3: a call whose every attempt rejects with TypeError 'Failed to fetch'
\* sleeps 1000, 2000, 4000 ms between the attempts, makes exactly 4
\* requests and then throws that network error.
C3_NetworkBackoff ==
    (variant = "retry" /\ AllFailedToFetch(Len(responses))) =>
      /\ IsPrefix(sleeps, <<1000, 2000, 4000>>)
      /\ requests <= 4
      /\ (Len(responses) < 4 => ~Settled /\ Len(sleeps) >= Len(responses))
      /\ (Len(responses) = 4 =>
              /\ pc = "thrown" /\ outcome = FailedToFetch
              /\ requests = 4 /\ sleeps = <<1000, 2000, 4000>>)

C3_Witness ==
    /\ variant = "retry" /\ Len(responses) = 4
    /\ AllFailedToFetch(4) /\ pc = "thrown"

\* C4: a 404 or 401 answer ends the call at once, at any retry counter:
\* it is the last answer, no request and no sleep follows it, and the call
\* throws 'Resource not found' / 'Invalid API key'.
C4_NoRetryOn404And401 ==
    variant = "retry" =>
      \A i \in 1..Len(responses) :
        (responses[i].type = "http" /\ responses[i].status \in {404, 401}) =>
          /\ i = Len(responses) /\ requests = i /\ Len(sleeps) = i - 1
          /\ pc = "thrown"
          /\ outcome = IF responses[i].status = 404
                        THEN Err("Error", "Resource not found", 0)
                        ELSE Err("Error", "Invalid API key", 0)

C4_Witness ==
    /\ variant = "retry" /\ retryCount = 3 /\ Len(responses) = 4
    /\ Last(responses).status = 404 /\ pc = "thrown"

\* C5: any other non-success status (400, 500, 503) ends the call at
\* once with an error carrying that status: no request and no sleep follows.
C5_OtherStatusFailsAtOnce ==
    \A i \in 1..Len(responses) :
      ( /\ responses[i].type = "http" /\ ~ok(responses[i])
        /\ responses[i].status \notin {429, 404, 401} ) =>
        /\ i = Len(responses) /\ requests = i /\ Len(sleeps) = i - 1
        /\ pc = "thrown"
        /\ outcome.kind = "error" /\ outcome.status = responses[i].status
        /\ outcome.message = "API request failed with status"

C5_Witness ==
    /\ variant = "retry" /\ retryCount = 1 /\ Len(responses) = 2
    /\ Last(responses).status = 503 /\ pc = "thrown"

\* C6: whatever mixture of 429s and network failures a call meets, its
\* retry counter stays within 3 and it makes at most 4 requests.
C6_SharedBudget ==
    /\ retryCount <= 3 /\ requests <= 4 /\ Len(sleeps) <= 3
    /\ requests = retryCount + (IF pc = "idle" THEN 0 ELSE 1)

C6_Witness ==
    /\ requests = 4 /\ Len(responses) = 4
    /\ \E i, j \in 1..3 : Is429(responses[i]) /\ IsFailedToFetch(responses[j])
    /\ Is429(responses[4]) /\ pc = "thrown"

\* the decimal value of a string of digits
RECURSIVE DecimalValue(_)
DecimalValue(h) ==
    IF h = <<>> THEN 0
    ELSE 10 * DecimalValue(SubSeq(h, 1, Len(h) - 1)) + DigitVal(Last(h))
IsDecimal(h) == h # <<>> /\ h # NoHeader /\ \A i \in 1..Len(h) : IsDigit(h[i])

\* C7: the sleep that follows a retried 429 is Retry-After x 1000 ms when
\* the header is a non-negative integer, and 5000 ms when it is absent,
\* whatever the retry counter (no backoff on this path).
C7_RetryAfterSleep ==
    variant = "retry" =>
      \A i \in 1..Len(sleeps) :
        Is429(responses[i]) =>
          /\ responses[i].retryAfter = NoHeader => sleeps[i] = 5000
          /\ IsDecimal(responses[i].retryAfter) =>
                sleeps[i] = DecimalValue(responses[i].retryAfter) * 1000

C7_Witness ==
    /\ variant = "retry" /\ Len(sleeps) = 3
    /\ Is429(responses[1]) /\ responses[1].retryAfter = NoHeader
    /\ Is429(responses[3]) /\ responses[3].retryAfter = <<"1", "0">>
    /\ sleeps[3] = 10000

(***************************************************************************)
(* App and CardDetail: handlers                                            *)
(***************************************************************************)
AppFrame == UNCHANGED <<variant, fetchVars, queryVars, hookVars, cvVars>>

\* App.handleSetSelect, called by SetGrid (rendered when view = 'sets')
handleSetSelect ==
    /\ view = "sets"
    /\ \E set \in AppSets :
          /\ selectedSet' = set /\ view' = "cards"
          /\ lastEvent' = [name |-> "handleSetSelect", set |-> set, view |-> ""]
    /\ UNCHANGED <<selectedCard, showCardDetail, quantity, condition, purchasePrice,
                   notes, collection, edited>>
    /\ AppFrame

\* App.handleBackToSets, called by CardGrid (rendered when view = 'cards'
\* and selectedSet is set)
handleBackToSets ==
    /\ view = "cards" /\ selectedSet # Null
    /\ view' = "sets"
    /\ lastEvent' = [name |-> "handleBackToSets", set |-> Null, view |-> ""]
    /\ UNCHANGED <<selectedSet, selectedCard, showCardDetail, quantity, condition,
                   purchasePrice, notes, collection, edited>>
    /\ AppFrame

\* NavbarViews with a button for the cards view
NavbarViews_withCards == {"sets", "cards", "collection"}

\* the views the buttons of Navbar pass to onSetSelectView
NavbarViews == {"sets", "collection"}

\* App.handleSetView, called by Navbar
handleSetView ==
    /\ \E newView \in NavbarViews :
          /\ selectedSet' = IF newView = "sets" THEN Null ELSE selectedSet
          /\ view' = newView
          /\ lastEvent' = [name |-> "handleSetView", set |-> Null, view |-> newView]
    /\ UNCHANGED <<selectedCard, showCardDetail, quantity, condition, purchasePrice,
                   notes, collection, edited>>
    /\ AppFrame

\* App.handleCardSelect, called by CardGrid; CardDetail is re-rendered with
\* the new card and keeps its state
handleCardSelect ==
    /\ view = "cards" /\ selectedSet # Null
    /\ \E card \in AppCards : selectedCard' = card
    /\ showCardDetail' = TRUE
    /\ edited' = FALSE
    /\ UNCHANGED <<view, selectedSet, quantity, condition, purchasePrice, notes,
                   collection, lastEvent>>
    /\ AppFrame

\* the dialog is dismissed: onOpenChange(false) = setShowCardDetail(false)
onOpenChange ==
    /\ showCardDetail /\ selectedCard # Null
    /\ showCardDetail' = FALSE
    /\ UNCHANGED <<view, selectedSet, selectedCard, quantity, condition,
                   purchasePrice, notes, collection, edited, lastEvent>>
    /\ AppFrame

\* the form of CardDetail is on screen
FormShown == showCardDetail /\ selectedCard # Null

\* parseFloat of a string of digits without a fraction or exponent
parseFloat(str) == parseInt(str)
\* x || dflt for a number x: NaN and 0 are falsy
OrDefault(x, dflt) == IF x.nan \/ x.n = 0 THEN dflt ELSE x.n

QuantityInputs == {<<>>, <<"0">>, <<"2">>}
PriceInputs == {<<>>, <<"5">>}
NotesInputs == {<<>>, <<"n">>}
CONDITIONS == {"Mint", "Near Mint"}        \* two of the seven conditions

\* onChange of the quantity, purchase price and notes fields, onValueChange
\* of the condition select
EditForm ==
    /\ FormShown
    /\ \/ \E v \in QuantityInputs :
             /\ quantity' = OrDefault(parseInt(v), 1)
             /\ UNCHANGED <<condition, purchasePrice, notes>>
       \/ \E c \in CONDITIONS :
             /\ condition' = c
             /\ UNCHANGED <<quantity, purchasePrice, notes>>
       \/ \E v \in PriceInputs :
             /\ purchasePrice' = OrDefault(parseFloat(v), 0)
             /\ UNCHANGED <<quantity, condition, notes>>
       \/ \E v \in NotesInputs :
             /\ notes' = v
             /\ UNCHANGED <<quantity, condition, purchasePrice>>
    /\ edited' = TRUE
    /\ UNCHANGED <<view, selectedSet, selectedCard, showCardDetail, collection,
                   lastEvent>>
    /\ AppFrame

owned == collection[selectedCard].owned

\* CardDetail.handleAddToCollection (the button of a card that is not
\* owned): the store takes the card with the values of the form
handleAddToCollection ==
    /\ FormShown /\ ~owned
    /\ collection' = [collection EXCEPT
                        ![selectedCard] = Entry(quantity, condition, purchasePrice, notes)]
    /\ UNCHANGED <<view, selectedSet, selectedCard, showCardDetail, quantity,
                   condition, purchasePrice, notes, edited, lastEvent>>
    /\ AppFrame

\* CardDetail.handleUpdateCollection (the button of an owned card): the
\* store takes the values of the form
handleUpdateCollection ==
    /\ FormShown /\ owned
    /\ collection' = [collection EXCEPT
                        ![selectedCard] = Entry(quantity, condition, purchasePrice, notes)]
    /\ UNCHANGED <<view, selectedSet, selectedCard, showCardDetail, quantity,
                   condition, purchasePrice, notes, edited, lastEvent>>
    /\ AppFrame

\* CardDetail.handleRemoveFromCollection
handleRemoveFromCollection ==
    /\ FormShown /\ owned
    /\ collection' = [collection EXCEPT ![selectedCard] = NoEntry]
    /\ UNCHANGED <<view, selectedSet, selectedCard, showCardDetail, quantity,
                   condition, purchasePrice, notes, edited, lastEvent>>
    /\ AppFrame

InitApp ==
    /\ variant = "plain" /\ FetchInit /\ QueryIdle /\ HookIdle
    /\ AppMounted /\ CvIdle
    /\ collection \in [AppCards -> StoredEntries]
NextApp ==
    \/ handleSetSelect \/ handleBackToSets \/ handleSetView \/ handleCardSelect
    \/ onOpenChange \/ EditForm \/ handleAddToCollection \/ handleUpdateCollection
    \/ handleRemoveFromCollection
SpecApp == InitApp /\ [][NextApp]_vars

(***************************************************************************)
(* CollectionView (src/src/components/CollectionView.tsx 20-337): the      *)
(* filtering and sorting done by each render                               *)
(***************************************************************************)
Undefined == 0 - 1            \* an absent market price (prices are >= 0)
R_Rare == <<"R", "a", "r", "e">>
R_Common == <<"C", "o", "m", "m", "o", "n">>

\* a card: its name, rarity and tcgplayer.prices, the entries of prices in
\* insertion order as <<variant, market>>; hasPrices = FALSE: no tcgplayer
CollectionCard(name, rarity, hasPrices, prices) ==
    [name |-> name, rarity |-> rarity, hasPrices |-> hasPrices, prices |-> prices]

\* the cards a collection is drawn from
Catalogue ==
    { CollectionCard("a", R_Rare, TRUE, << <<"holofoil", 7>>, <<"normal", 3>> >>),
      CollectionCard("b", R_Common, TRUE, << <<"normal", 3>> >>),
      CollectionCard("c", R_Common, FALSE, <<>>),
      CollectionCard("d", R_Rare, TRUE,
                     << <<"reverseHolofoil", 0>>, <<"normal", 5>> >>),
      CollectionCard("e", R_Rare, TRUE,
                     << <<"holofoil", Undefined>>, <<"1stEditionHolofoil", 9>> >>) }

MaxCards == 3
Collections ==
    { c \in UNION { [1..n -> Catalogue] : n \in 0..MaxCards } :
        \A i, j \in 1..Len(c) : i # j => c[i] # c[j] }

\* prices.<variant>?.market
market(prices, key) ==
    IF \E i \in 1..Len(prices) : prices[i][1] = key
    THEN prices[CHOOSE i \in 1..Len(prices) : prices[i][1] = key][2]
    ELSE Undefined

\* Object.values(prices).find((p) => p?.market)?.market
findMarket(prices) ==
    IF \E i \in 1..Len(prices) : prices[i][2] > 0
    THEN prices[CHOOSE i \in 1..Len(prices) :
                   /\ prices[i][2] > 0
                   /\ \A j \in 1..(i - 1) : ~(prices[j][2] > 0)][2]
    ELSE Undefined

\* a ?? b
Coalesce(a, b) == IF a # Undefined THEN a ELSE b

\* CollectionView.getCardPrice
getCardPrice(card) ==
    IF ~card.hasPrices THEN 0
    ELSE Coalesce(market(card.prices, "holofoil"),
         Coalesce(market(card.prices, "reverseHolofoil"),
         Coalesce(market(card.prices, "normal"),
         Coalesce(findMarket(card.prices), 0))))

\* the lines of the render function at which sortedCards is computed (the
\* sort runs there) and at which const getCardPrice is initialised
Line_sortedCards == 75
Line_getCardPrice == 92
\* a const declared at line decl can be used by code running at line at
Initialised(decl, at) == decl < at

\* String.prototype.localeCompare on the one-letter names of the catalogue
Alphabet == <<"a", "b", "c", "d", "e">>
Rank(name) == CHOOSE i \in 1..Len(Alphabet) : Alphabet[i] = name
localeCompare(a, b) ==
    IF Rank(a) < Rank(b) THEN 0 - 1 ELSE IF Rank(a) > Rank(b) THEN 1 ELSE 0

SortOptions == {"name", "price-high", "price-low"}

\* the comparator given to sort uses getCardPrice
usesGetCardPrice(by) == by \in {"price-high", "price-low"}

\* the comparator of sortedCards
compare(a, b, by) ==
    CASE by = "name" -> localeCompare(a.name, b.name)
      [] by = "price-high" -> getCardPrice(b) - getCardPrice(a)
      [] by = "price-low" -> getCardPrice(a) - getCardPrice(b)
      [] OTHER -> 0

RECURSIVE insert(_, _, _)
\* x put into the sorted list after the elements that do not compare greater
insert(sorted, x, by) ==
    IF sorted = <<>> THEN <<x>>
    ELSE IF compare(Head(sorted), x, by) > 0 THEN <<x>> \o sorted
    ELSE <<Head(sorted)>> \o insert(Tail(sorted), x, by)

RECURSIVE sort(_, _)
\* Array.prototype.sort with the comparator of sortedCards (a stable sort)
sort(cards, by) ==
    IF cards = <<>> THEN <<>>
    ELSE insert(sort(SubSeq(cards, 1, Len(cards) - 1), by), cards[Len(cards)], by)

\* collectionCards.filter(...) with the rarity filter
filteredCards(cards, rarity) ==
    SelectSeq(cards, LAMBDA card : ~Truthy(rarity) \/ card.rarity = rarity)

\* the errors a call of getCardPrice before its initialisation throws: a
\* ReferenceError for a const binding, a TypeError when the build turns
\* const into var
UseBeforeInit == {"ReferenceError", "TypeError"}

\* one render: filter, then sort; sort calls its comparator when there are
\* two or more cards to compare
Render(cards, by, rarity, out) ==
    LET filtered == filteredCards(cards, rarity)
    IN  IF /\ Len(filtered) >= 2 /\ usesGetCardPrice(by)
           /\ ~Initialised(Line_getCardPrice, Line_sortedCards)
        THEN \E error \in UseBeforeInit : out = RenderThrew(error)
        ELSE out = Rendered(sort(filtered, by))

CvFrame == UNCHANGED <<variant, fetchVars, queryVars, hookVars, appVars>>

\* the sort select: onValueChange={setSortBy}, then the next render
setSortBy ==
    /\ sortedCards.ok
    /\ \E v \in SortOptions :
          /\ sortBy' = v
          /\ Render(collectionCards, v, selectedRarity, sortedCards')
    /\ UNCHANGED <<collectionCards, selectedRarity>>
    /\ CvFrame

\* the rarity select: setSelectedRarity(v === "none" ? null : v), then the
\* next render
setSelectedRarity ==
    /\ sortedCards.ok
    /\ \E v \in {Null, R_Rare, R_Common} :
          /\ selectedRarity' = v
          /\ Render(collectionCards, sortBy, v, sortedCards')
    /\ UNCHANGED <<collectionCards, sortBy>>
    /\ CvFrame

InitCollectionView ==
    /\ variant = "plain" /\ FetchInit /\ QueryIdle /\ HookIdle
    /\ AppMounted /\ collection = [c \in AppCards |-> NoEntry]
    /\ collectionCards \in Collections
    /\ sortBy = "name" /\ selectedRarity = Null
    /\ Render(collectionCards, sortBy, selectedRarity, sortedCards)
NextCollectionView == setSortBy \/ setSelectedRarity
SpecCollectionView == InitCollectionView /\ [][NextCollectionView]_vars

(***************************************************************************)
(* Properties of the requests built                                        *)
(***************************************************************************)
\* C8: no entry of the query string sent has an empty value.
C8_NoEmptyParameter ==
    qdone = "sent" => \A i \in 1..Len(qsent) : qsent[i][2] # <<>>

\* the retry variant keeps C8: its fetchFromApi skips the falsy values
RetryVariant_NoEmptyParameter ==
    (variant = "retry" /\ qdone = "sent") =>
        \A i \in 1..Len(qsent) : Truthy(qsent[i][2])

\* the value of parameter k among the entries sent
Param(sent, k) == sent[CHOOSE i \in 1..Len(sent) : sent[i][1] = k][2]

\* term occurs in q as a whole space-delimited run
HasTerm(q, term) ==
    \E i \in 1..(Len(q) - Len(term) + 1) :
        /\ SubSeq(q, i, i + Len(term) - 1) = term
        /\ (i = 1 \/ q[i - 1] = " ")
        /\ (i + Len(term) - 1 = Len(q) \/ q[i + Len(term)] = " ")

\* the term the search expression is to hold for a filter entry
QuotedTerm(key, value) == key \o <<":", "\"">> \o value \o <<"\"">>
BareTerm(key, value) == key \o <<":">> \o value
QuotesRight(q, filters) ==
    \A i \in 1..Len(filters) :
        filters[i][2] # <<>> =>
            IF \E j \in 1..Len(filters[i][2]) : filters[i][2][j] = " "
            THEN HasTerm(q, QuotedTerm(filters[i][1], filters[i][2]))
            ELSE HasTerm(q, BareTerm(filters[i][1], filters[i][2]))

\* C9: in the q of useCards, the term of every non-empty filter value is
\* key:"value" when the value has a space and key:value when it has none.
C9_QuotedIffSpace ==
    (qhook = "useCards" /\ qdone = "sent") =>
        QuotesRight(Param(qsent, S_q), qfilters)

\* the retry variant keeps C9
RetryVariant_QuotedIffSpace ==
    (variant = "retry" /\ qhook = "useCards" /\ qdone = "sent") =>
        QuotesRight(Param(qsent, S_q), qfilters)

RECURSIVE SpaceJoined(_)
SpaceJoined(terms) ==
    IF Len(terms) = 1 THEN terms[1]
    ELSE SpaceJoined(SubSeq(terms, 1, Len(terms) - 1)) \o <<" ">> \o Last(terms)

\* the search expression of the claim: set.id:"<setId>", then the term of
\* each filter with a non-empty value in insertion order, single spaces
ExpectedQ(setId, filters) ==
    LET kept == SelectSeq(filters, LAMBDA e : e[2] # <<>>)
        term(e) == IF \E j \in 1..Len(e[2]) : e[2][j] = " "
                   THEN QuotedTerm(e[1], e[2]) ELSE BareTerm(e[1], e[2])
    IN  SpaceJoined(<<QuotedTerm(<<"s", "e", "t", ".", "i", "d">>, setId)>>
                    \o [i \in 1..Len(kept) |-> term(kept[i])])

\* set.id:"base1" rarity:"Rare Holo" type:Fire
ExampleQ ==
    <<"s", "e", "t", ".", "i", "d", ":", "\"", "b", "a", "s", "e", "1", "\"", " ",
      "r", "a", "r", "i", "t", "y", ":", "\"", "R", "a", "r", "e", " ", "H", "o",
      "l", "o", "\"", " ", "t", "y", "p", "e", ":", "F", "i", "r", "e">>
ExampleFilters == << <<S_rarity, S_RareHolo>>, <<S_type, S_Fire>> >>

QAsClaimed ==
    /\ Param(qsent, S_q) = ExpectedQ(qsetId, qfilters)
    /\ (qsetId = S_base1 /\ qfilters = ExampleFilters) => Param(qsent, S_q) = ExampleQ

\* C10: the q of useCards is set.id:"<setId>" followed by one term per
\* non-empty filter in insertion order, joined by single spaces.
C10_SearchExpression ==
    (qhook = "useCards" /\ qdone = "sent") => QAsClaimed

\* the retry variant keeps C10
RetryVariant_SearchExpression ==
    (variant = "retry" /\ qhook = "useCards" /\ qdone = "sent") => QAsClaimed

(***************************************************************************)
(* Properties of a mounted hook                                            *)
(***************************************************************************)
Quiescent == mounted /\ \A i \in 1..Len(calls) : calls[i].pc \in {"returned", "thrown"}

\* C1: once every request has settled, if the request issued last (for the
\* current input) succeeded, the visible data and total are those of its
\* response, whatever the order of the completions.
C1_LatestRequestWins ==
    ( /\ hook \in {"useSets", "useCards"} /\ Quiescent /\ Len(issued) >= 2
      /\ issued[Len(issued)] = hinput /\ calls[Len(issued)].pc = "returned" ) =>
        hdata = Len(issued) /\ htotal = Len(issued)

\* with a single request there is no race: its response is what is shown
SingleRequest_Shown ==
    ( /\ hook \in {"useSets", "useCards"} /\ Quiescent /\ Len(issued) = 1
      /\ issued[1] = hinput /\ calls[1].pc = "returned" ) =>
        hdata = 1 /\ htotal = 1

\* the step is a run of the hook's effect: the first render, or a render
\* whose arguments differ from those of the previous one
FirstMount == ~mounted /\ mounted'
EffectRan == FirstMount \/ (mounted /\ hinput' # hinput)
Outstanding(c) == c.pc \in {"fetch", "delay"}
HasSettled(c) == c.pc \in {"returned", "thrown"}

\* C11: a run of the effect of useCards without a setId issues no request
\* and makes the items empty and the total 0 in that step, whatever the
\* page and the filters.
C11_NoSetIdNoRequest ==
    [][ (hook = "useCards" /\ EffectRan /\ ~Truthy(hinput'.setId)) =>
            /\ issued' = issued /\ calls' = calls /\ hsent' = hsent
            /\ hdata' = 0 /\ htotal' = 0 ]_vars

C11_Witness ==
    /\ hook = "useCards" /\ mounted /\ hinput.setId = Null /\ hinput.page = 2
    /\ Len(issued) = 1 /\ calls[1].pc = "returned" /\ hdata = 0 /\ htotal = 0

\* C12: when the setId of useCards becomes absent the hook is at once in an
\* empty Success state: no items, total 0, not loading, no error.
C12_EmptySuccessOnNoSetId ==
    [][ (hook = "useCards" /\ EffectRan /\ ~Truthy(hinput'.setId)) =>
            /\ hdata' = 0 /\ htotal' = 0
            /\ hloading' = FALSE /\ herror' = NoValue ]_vars

\* C13: useCard without a cardId issues no request and its card becomes
\* null in that step; with a cardId every change of it issues one call, to
\* cards/<cardId> with an empty query string, and no other step issues one.
C13_UseCardRequests ==
    [][ hook = "useCard" =>
          /\ (EffectRan /\ ~Truthy(hinput'.cardId)) =>
                issued' = issued /\ hsent' = hsent /\ hdata' = 0
          /\ (EffectRan /\ Truthy(hinput'.cardId)) =>
                /\ Len(hsent') = Len(hsent) + 1
                /\ SubSeq(hsent', 1, Len(hsent)) = hsent
                /\ Last(hsent') =
                     [endpoint |-> <<"c", "a", "r", "d", "s", "/">> \o hinput'.cardId,
                      query |-> <<>>]
          /\ ~EffectRan => hsent' = hsent ]_vars

C13_Witness ==
    /\ hook = "useCard" /\ hinput.cardId = S_base1 /\ Len(hsent) = 2
    /\ hsent[1].endpoint = <<"c", "a", "r", "d", "s", "/", "x", "y", "1">>
    /\ hsent[2].endpoint = <<"c", "a", "r", "d", "s", "/", "b", "a", "s", "e", "1">>
    /\ hsent[2].query = <<>>

\* C14: a completion moves the hook to exactly one of Success or Failed:
\* after a request completes successfully the hook's error is null.
C14_SuccessClearsError ==
    [][ \A i \in 1..Len(calls) :
          (Outstanding(calls[i]) /\ calls'[i].pc = "returned") =>
              herror' = NoValue ]_vars

\* C15: while the request issued for the current input is outstanding,
\* loading is true.
C15_LoadingWhileOutstanding ==
    ( /\ mounted /\ Issues(hook, hinput) /\ issued # <<>>
      /\ Last(issued) = hinput /\ Outstanding(Last(calls)) ) => hloading

\* C16 as stated: entering Loading leaves the data, the total and the
\* previous error as they were.
C16_PayloadAndErrorKept ==
    [][ Len(issued') > Len(issued) =>
            hdata' = hdata /\ htotal' = htotal /\ herror' = herror ]_vars

\* C16, amended: entering Loading leaves the data and the total as they
\* were and resets the error to null.
C16_DataKeptErrorCleared ==
    [][ Len(issued') > Len(issued) =>
            /\ hdata' = hdata /\ htotal' = htotal
            /\ herror' = NoValue /\ hloading' ]_vars

C16_Witness ==
    /\ mounted /\ Len(issued) = 2 /\ calls[1].pc = "thrown"
    /\ calls[2] = [rc |-> 0, pc |-> "fetch"] /\ herror = NoValue /\ hloading

\* two filter objects hold the same entries
SameEntries(f, g) ==
    {f[i] : i \in 1..Len(f)} = {g[i] : i \in 1..Len(g)}
ValueEqual(a, b) ==
    /\ a.setId = b.setId /\ a.cardId = b.cardId /\ a.page = b.page
    /\ a.pageSize = b.pageSize /\ SameEntries(a.filters, b.filters)

\* C17 as stated: a request is issued exactly on first mount and when the
\* input changes by value (a filters object with the same entries is no
\* change), and then exactly one.
C17_RequestIffValueChange ==
    [][ IF FirstMount \/ ~ValueEqual(hinput, hinput')
        THEN Len(issued') = Len(issued) + 1
        ELSE issued' = issued ]_vars

\* C17, amended: the effect runs on first mount and when an argument changes
\* (the filters compared by their JSON text, so by entries and their order);
\* a run issues exactly one request, for the new input, unless the hook's
\* setId / cardId is absent, and then none; no other step issues a request.
C17_RequestPerEffectRun ==
    [][ IF EffectRan /\ Issues(hook, hinput')
        THEN issued' = Append(issued, hinput') /\ Len(calls') = Len(calls) + 1
        ELSE issued' = issued /\ Len(calls') = Len(calls) ]_vars

C17_Witness ==
    /\ hook = "useSets" /\ Quiescent /\ Len(issued) = 2
    /\ issued[1].filters # issued[2].filters
    /\ SameEntries(issued[1].filters, issued[2].filters)

\* what fetchFromApi throws when the fetch of a call at retry counter rc
\* answers resp
Thrown(i, rc) ==
    { st.value : st \in { s \in { IF variant = "retry" THEN fetchFromApi(rc, resp)
                                                     ELSE fetchFromApi_api(resp) :
                                  resp \in HookResponses(i) } : s.act = "throw" } }

\* C18: when a call fails, the hook's error becomes the error the transport
\* threw (never null) and loading ends; this holds of useCard as well.
C18_FailureReachesHook ==
    [][ \A i \in 1..Len(calls) :
          (Outstanding(calls[i]) /\ calls'[i].pc = "thrown") =>
              /\ herror' \in Thrown(i, calls[i].rc)
              /\ herror'.kind = "error" /\ hloading' = FALSE
              /\ hdata' = hdata /\ htotal' = htotal ]_vars

C18_Witness ==
    /\ hook = "useCard" /\ variant = "retry" /\ Len(calls) = 1
    /\ calls[1] = [rc |-> 3, pc |-> "thrown"]
    /\ herror = FailedToFetch /\ ~hloading

\* C19: a retry (the answer that is retried, the sleep, the next attempt)
\* changes nothing the hook shows; a lone request keeps the hook loading
\* without error until it settles; a settled call never changes again.
C19_RetriesInvisible ==
    [][ /\ \A i \in 1..Len(calls) :
             /\ ( Outstanding(calls[i]) /\ Outstanding(calls'[i])
                  /\ calls'[i] # calls[i] ) =>
                    UNCHANGED <<hdata, htotal, hloading, herror>>
             /\ HasSettled(calls[i]) => calls'[i] = calls[i]
        /\ (Len(calls') = 1 /\ Outstanding(calls'[1])) =>
              hloading' /\ herror' = NoValue ]_vars

C19_Witness ==
    /\ variant = "retry" /\ Len(calls) = 1 /\ calls[1] = [rc |-> 2, pc |-> "delay"]
    /\ hloading /\ herror = NoValue

\* C20: every request of useSets carries orderBy = releaseDate.
C20_OrderByReleaseDate ==
    (qhook = "useSets" /\ qdone = "sent") =>
        /\ HasKey(qsent, S_orderBy)
        /\ Param(qsent, S_orderBy) = S_releaseDate

\* without an orderBy key among the filters the request does carry it
NoOrderByFilter_OrderByReleaseDate ==
    (qhook = "useSets" /\ qdone = "sent" /\ ~HasKey(qfilters, S_orderBy)) =>
        /\ HasKey(qsent, S_orderBy)
        /\ Param(qsent, S_orderBy) = S_releaseDate

(***************************************************************************)
(* Properties of the requests built, continued                             *)
(***************************************************************************)
Entries(obj) == {obj[i] : i \in 1..Len(obj)}
Keys(obj) == [i \in 1..Len(obj) |-> obj[i][1]]

\* C21: the request of useSets holds every filter entry with a non-empty
\* value under its own key with its own value, each key once, and besides
\* the filter entries only page, pageSize and orderBy = releaseDate.
C21_FiltersVerbatim ==
    (qhook = "useSets" /\ qdone = "sent") =>
        /\ \A e \in Entries(qfilters) : e[2] # <<>> => e \in Entries(qsent)
        /\ \A i, j \in 1..Len(qsent) : qsent[i][1] = qsent[j][1] => i = j
        /\ \A e \in Entries(qsent) :
              \/ e \in Entries(qfilters)
              \/ e \in { <<S_page, toString(qpage)>>,
                         <<S_pageSize, toString(qpageSize)>>,
                         <<S_orderBy, S_releaseDate>> }

C21_Witness ==
    /\ qhook = "useSets" /\ qdone = "sent" /\ variant = "retry"
    /\ qfilters = << <<S_page, S_Fire>>, <<S_rarity, S_RareHolo>> >>
    /\ Param(qsent, S_page) = S_Fire /\ Param(qsent, S_rarity) = S_RareHolo
    /\ Len(qsent) = 4

\* C22: every request of useCards holds exactly page, pageSize, q and
\* orderBy, with the hook's page and pageSize and orderBy = number, whatever
\* the filters are named; the filters appear only as terms of q.
C22_UseCardsParameters ==
    (qhook = "useCards" /\ qdone = "sent") =>
        /\ Keys(qsent) = <<S_page, S_pageSize, S_q, S_orderBy>>
        /\ qsent[1][2] = toString(qpage) /\ qsent[2][2] = toString(qpageSize)
        /\ qsent[4][2] = S_number
        /\ \A e \in Entries(qfilters) :
              e[2] # <<>> =>
                \E i \in 1..Len(qsent[3][2]) :
                    SubSeq(qsent[3][2], i, i + Len(e[1])) = e[1] \o <<":">>

C22_Witness ==
    /\ qhook = "useCards" /\ qdone = "sent"
    /\ qfilters = << <<S_orderBy, S_Fire>>, <<S_page, S_Fire>> >>
    /\ Param(qsent, S_orderBy) = S_number /\ Param(qsent, S_page) = toString(qpage)
    /\ HasTerm(Param(qsent, S_q), BareTerm(S_orderBy, S_Fire))

\* C26: in the q the retry variant of useCards builds, the term of a filter
\* value that holds a white-space character (space, tab or newline) has the
\* value in double quotes.
C26_WhitespaceQuoted ==
    (variant = "retry" /\ qhook = "useCards" /\ qdone = "sent") =>
        \A e \in Entries(qfilters) :
            (\E j \in 1..Len(e[2]) : IsWhite(e[2][j])) =>
                HasTerm(Param(qsent, S_q), QuotedTerm(e[1], e[2]))

(***************************************************************************)
(* Properties of one fetchFromApi call, continued                          *)
(***************************************************************************)
IsBadBody(resp) == resp.type = "http" /\ resp.status = 200 /\ ~resp.bodyOk

\* C23: a 200 response whose body does not parse ends the call: it is the
\* last response, the call has thrown the decode error, and no request and
\* no sleep follows it, at every retry counter.
C23_DecodeErrorTerminal ==
    \A k \in 1..Len(responses) :
        IsBadBody(responses[k]) =>
            /\ k = Len(responses) /\ requests = k /\ Len(sleeps) = k - 1
            /\ pc = "thrown" /\ outcome = DecodeError

C23_Witness ==
    /\ variant = "retry" /\ Len(responses) = 2 /\ retryCount = 1
    /\ IsFailedToFetch(responses[1]) /\ IsBadBody(responses[2])
    /\ pc = "thrown" /\ outcome = DecodeError /\ sleeps = <<1000>>

\* C28: the sleep after the k-th response, when that is a network failure,
\* is 1000 * 2^(k-1) ms, whichever path consumed the k-1 retries before it
\* (2000 ms after one 429 retry), and it is at most 4000 ms.
C28_BackoffSharedCounter ==
    \A k \in 1..Len(sleeps) :
        IsFailedToFetch(responses[k]) =>
            /\ sleeps[k] = 1000 * Pow2(k - 1)
            /\ sleeps[k] <= 4000
            /\ (k = 2 /\ Is429(responses[1])) => sleeps[k] = 2000

C28_Witness ==
    /\ Len(sleeps) = 3 /\ Is429(responses[1]) /\ IsFailedToFetch(responses[2])
    /\ Is429(responses[2 + 1]) /\ sleeps[2] = 2000

\* C29: the attempts of a call are sequential: at most one request is
\* outstanding, attempt k+1 starts only after response k was a retried
\* failure and its sleep was started and has elapsed, and a call that has
\* thrown stays thrown with the error of its last attempt, after at most
\* MAX_RETRIES + 1 attempts.
C29_SequentialAttempts ==
    /\ requests = Len(responses) + (IF pc = "fetch" THEN 1 ELSE 0)
    /\ requests <= MAX_RETRIES + 1
    /\ Len(sleeps) = (IF pc = "delay" THEN requests ELSE retryCount)
    /\ pc # "idle" => retryCount = requests - 1
    /\ \A k \in 1..Len(sleeps) :
          Is429(responses[k]) \/ IsFailedToFetch(responses[k])
    /\ pc = "thrown" =>
          LET step == IF variant = "retry"
                      THEN tryBlock(retryCount, Last(responses))
                      ELSE fetchFromApi_api(Last(responses))
          IN  step.act \in {"raise", "throw"} /\ outcome = step.value

C29_Witness ==
    /\ variant = "retry" /\ pc = "thrown" /\ requests = 4
    /\ Is429(responses[3]) /\ IsFailedToFetch(responses[4])
    /\ outcome = FailedToFetch /\ Len(sleeps) = 3

(***************************************************************************)
(* Properties of a mounted hook, continued                                 *)
(***************************************************************************)
\* C24: the data and the total useSets and useCards show come from one
\* response, or are both the initial / cleared values.
C24_DataAndTotalTogether ==
    hook \in {"useSets", "useCards"} => hdata = htotal

C24_Witness ==
    /\ hook = "useCards" /\ Len(calls) = 2
    /\ calls[1].pc = "returned" /\ calls[2].pc = "returned"
    /\ hdata = 1 /\ htotal = 1

AllSettled == \A i \in 1..Len(calls) : HasSettled(calls[i])

\* C25: every call makes at most MAX_RETRIES + 1 attempts and settles, and
\* if the hook's input stops changing, the hook is in the end mounted with
\* every call settled and loading = false, for good.
C25_Terminates ==
    /\ [](\A i \in 1..Len(calls) : calls[i].rc <= MAX_RETRIES)
    /\ \A i \in 1..MaxRequests :
          (Len(calls) >= i) ~> (Len(calls) >= i /\ HasSettled(calls[i]))
    /\ (<>[][hinput' = hinput]_vars) => <>[](mounted /\ AllSettled /\ ~hloading)

C25_Witness ==
    /\ variant = "retry" /\ mounted /\ Len(calls) = 2 /\ AllSettled /\ ~hloading
    /\ calls[1] = [rc |-> 3, pc |-> "thrown"] /\ calls[2].pc = "returned"

\* C27: while the setId of useCards / the cardId of useCard is absent, the
\* hook shows the empty result (no items and total 0 / no card), whatever
\* calls issued before settle in the meantime.
C27_AbsentStaysEmpty ==
    (mounted /\ hook \in {"useCards", "useCard"} /\ ~Issues(hook, hinput)) =>
        hdata = 0 /\ (hook = "useCards" => htotal = 0)

\* C30: a call that fails leaves the data and the total as they were.
C30_FailureKeepsData ==
    [][ (\E i \in 1..Len(calls) :
            Outstanding(calls[i]) /\ calls'[i].pc = "thrown") =>
        UNCHANGED <<hdata, htotal>> ]_vars

C30_Witness ==
    /\ Len(calls) = 2 /\ calls[1].pc = "returned" /\ calls[2].pc = "thrown"
    /\ hdata = 1 /\ htotal = (IF hook = "useCard" THEN 0 ELSE 1)
    /\ herror # NoValue /\ ~hloading

PageAndPageSizeSent ==
    /\ HasKey(qsent, S_page) /\ Param(qsent, S_page) = toString(qpage)
    /\ HasKey(qsent, S_pageSize) /\ Param(qsent, S_pageSize) = toString(qpageSize)

\* C31: every request of useSets and useCards carries page and pageSize
\* with the decimal text of the hook's page and pageSize arguments, whatever
\* the filters are named.
C31_PageAndPageSizeSent ==
    qdone = "sent" => PageAndPageSizeSent

\* useCards keeps C31: its filters go into q only
UseCards_PageAndPageSizeSent ==
    (qhook = "useCards" /\ qdone = "sent") => PageAndPageSizeSent

(***************************************************************************)
(* Properties of App and CardDetail                                        *)
(***************************************************************************)
\* C32: while the dialog shows a card that is in the collection and no field
\* was edited since the card was selected, the form holds the quantity,
\* condition, purchase price and notes stored for that card.
C32_FormShowsStored ==
    (FormShown /\ collection[selectedCard].owned /\ ~edited) =>
        /\ quantity = collection[selectedCard].quantity
        /\ condition = collection[selectedCard].condition
        /\ purchasePrice = collection[selectedCard].purchasePrice
        /\ notes = collection[selectedCard].notes

\* C33: in the cards view a set is selected; after handleSetSelect(set) the
\* view is cards with that set; the navbar asks for sets or collection only,
\* the view is then the one asked for, and asking for sets leaves no set
\* selected.
C33_CardsViewHasSet ==
    /\ view = "cards" => selectedSet # Null
    /\ lastEvent.name = "handleSetSelect" =>
          view = "cards" /\ selectedSet = lastEvent.set /\ selectedSet # Null
    /\ lastEvent.name = "handleSetView" =>
          /\ lastEvent.view \in {"sets", "collection"}
          /\ view = lastEvent.view
          /\ lastEvent.view = "sets" => selectedSet = Null

C33_Witness ==
    /\ view = "cards" /\ selectedSet = <<"x", "y", "1">>
    /\ lastEvent.name = "handleSetSelect" /\ selectedCard # Null

(***************************************************************************)
(* Properties of CollectionView                                            *)
(***************************************************************************)
IsPermutation(s1, s2) ==
    /\ Len(s1) = Len(s2)
    /\ \A x \in {s1[i] : i \in 1..Len(s1)} \cup {s2[i] : i \in 1..Len(s2)} :
          Cardinality({i \in 1..Len(s1) : s1[i] = x})
              = Cardinality({i \in 1..Len(s2) : s2[i] = x})

\* sorting by name renders the filtered cards in name order
NameSort_Rendered ==
    sortBy = "name" =>
        /\ sortedCards.ok
        /\ IsPermutation(sortedCards.cards, filteredCards(collectionCards, selectedRarity))
        /\ \A i \in 1..(Len(sortedCards.cards) - 1) :
              Rank(sortedCards.cards[i].name) <= Rank(sortedCards.cards[i + 1].name)

\* the market price of the claim: holofoil, else reverseHolofoil, else
\* normal, else the first variant with a market price, else 0
PriceAsClaimed(card) ==
    LET has(v) == card.hasPrices /\ market(card.prices, v) # Undefined
        priced == {i \in 1..Len(card.prices) : card.prices[i][2] # Undefined}
    IN  IF has("holofoil") THEN market(card.prices, "holofoil")
        ELSE IF has("reverseHolofoil") THEN market(card.prices, "reverseHolofoil")
        ELSE IF has("normal") THEN market(card.prices, "normal")
        ELSE IF card.hasPrices /\ priced # {}
             THEN card.prices[CHOOSE i \in priced : \A j \in priced : i <= j][2]
        ELSE 0

\* C34: with two or more filtered cards, sort 'price-high' renders them in
\* non-increasing and 'price-low' in non-decreasing order of market price.
C34_PriceSortRendered ==
    (usesGetCardPrice(sortBy)
     /\ Len(filteredCards(collectionCards, selectedRarity)) >= 2) =>
        /\ sortedCards.ok
        /\ IsPermutation(sortedCards.cards, filteredCards(collectionCards, selectedRarity))
        /\ \A i \in 1..(Len(sortedCards.cards) - 1) :
              IF sortBy = "price-high"
              THEN PriceAsClaimed(sortedCards.cards[i])
                     >= PriceAsClaimed(sortedCards.cards[i + 1])
              ELSE PriceAsClaimed(sortedCards.cards[i])
                     <= PriceAsClaimed(sortedCards.cards[i + 1])

====
